---------------------------- MODULE Spec2Model ----------------------------
(***************************************************************************)
(* State-machine model of YoutubeDownloader.py: the main window            *)
(* (VideoDownloaderApp), its download worker (VideoDownloaderThread) and   *)
(* the recent-URL history file.                                            *)
(*                                                                         *)
(* Text is a sequence of pieces.  A piece is an indivisible run of         *)
(* characters: " " is whitespace, "\n" a line break, "youtube", ".com",    *)
(* ... are runs that do not overlap each other, so that Python's           *)
(* substring test, strip(), split and join act on pieces exactly as they   *)
(* act on the characters.                                                  *)
(***************************************************************************)
EXTENDS Integers, Sequences, FiniteSets, TLC

VARIABLES
    url_input,        \* self.url_input.text()
    quality_combo,    \* self.quality_combo.currentText()
    combo_items,      \* items of self.recent_urls_combo
    combo_index,      \* its current index, 0 when it has no current item
    history_file,     \* content of RECENT_URLS_FILE, or NoFile
    ffmpeg_on_path,   \* whether shutil.which("ffmpeg") finds the converter
    button_enabled,   \* self.download_button.isEnabled()
    progress_bar,     \* self.progress_bar.value()
    speed_label,      \* the speed shown by self.speed_label, or NoSpeed
    tab_index,        \* self.tab_widget.currentIndex()
    dialogs,          \* stack of open modal message boxes (innermost last)
    threads,          \* the VideoDownloaderThreads: self.download_thread
                      \* last, before it those still running
    queue             \* signals emitted by workers, not yet delivered

vars == << url_input, quality_combo, combo_items, combo_index, history_file,
           ffmpeg_on_path, button_enabled, progress_bar, speed_label,
           tab_index, dialogs, threads, queue >>

(***************************************************************************)
(* Text helpers.                                                           *)
(***************************************************************************)
Min(a, b) == IF a <= b THEN a ELSE b

\* the whitespace pieces str.strip() removes
IsSpace(c) == c \in {" ", "\n"}

RECURSIVE lstrip(_)
lstrip(s) ==
    IF s # << >> /\ IsSpace(Head(s)) THEN lstrip(Tail(s)) ELSE s

RECURSIVE rstrip(_)
rstrip(s) ==
    IF s # << >> /\ IsSpace(s[Len(s)])
    THEN rstrip(SubSeq(s, 1, Len(s) - 1))
    ELSE s

\* str.strip()
strip(s) == lstrip(rstrip(s))

\* Python's `sub in s` on strings
Contains(sub, s) ==
    \E i \in 1 .. (Len(s) - Len(sub) + 1) : SubSeq(s, i, i + Len(sub) - 1) = sub

\* a membership test that never finds the element
InListNever(x, l) == FALSE

\* Python's `x in list`
InList(x, l) == \E i \in 1 .. Len(l) : l[i] = x

\* '\n'.join(lines)
RECURSIVE join(_)
join(lines) ==
    IF lines = << >> THEN << >>
    ELSE IF Len(lines) = 1 THEN lines[1]
    ELSE lines[1] \o << "\n" >> \o join(Tail(lines))

\* f.readlines(): the text cut after every line break
RECURSIVE readlines(_)
readlines(text) ==
    IF text = << >> THEN << >>
    ELSE LET brk == { i \in 1 .. Len(text) : text[i] = "\n" }
         IN  IF brk = {} THEN << text >>
             ELSE LET n == CHOOSE i \in brk : \A k \in brk : i <= k
                  IN  << SubSeq(text, 1, n) >>
                         \o readlines(SubSeq(text, n + 1, Len(text)))

\* [line.strip() for line in lines if line.strip()]
RECURSIVE strip_nonblank(_)
strip_nonblank(lines) ==
    IF lines = << >> THEN << >>
    ELSE LET l == strip(Head(lines))
         IN  (IF l # << >> THEN << l >> ELSE << >>)
                \o strip_nonblank(Tail(lines))

\* recent_urls[:n]
Take(l, n) == SubSeq(l, 1, Min(n, Len(l)))

(***************************************************************************)
(* VideoDownloaderThread._get_format_option                                *)
(***************************************************************************)
BestAvailable == << "Best", " ", "Available" >>

\* VideoDownloaderApp.QUALITY_OPTIONS; a label is its characters
QUALITY_OPTIONS ==
    << << "3", "6", "0", "p" >>, << "4", "8", "0", "p" >>,
       << "7", "2", "0", "p" >>, << "1", "0", "8", "0", "p" >>,
       BestAvailable >>

BEST_MP4 == << "best[ext=mp4]" >>

YOUTUBE_BEST == << "bestvideo[ext=mp4]+bestaudio[ext=m4a]/best[ext=mp4]" >>

\* the f-string for a height-limited YouTube download; h is quality[:-1]
YoutubeHeight(h) ==
    << "bestvideo[height<=" >> \o h
        \o << "][ext=mp4]+bestaudio[ext=m4a]/best[height<=" >> \o h
        \o << "][ext=mp4]" >>

\* the value of platforms["youtube.com"]()
YoutubeFormat(quality) ==
    IF quality = BestAvailable
    THEN YOUTUBE_BEST
    ELSE YoutubeHeight(SubSeq(quality, 1, Len(quality) - 1))

\* the keys of `platforms`, in insertion (= iteration) order
PLATFORMS ==
    << << "youtube", ".com" >>, << "instagram", ".com" >>,
       << "vimeo", ".com" >>, << "facebook", ".com" >> >>

\* every platform given YouTube's quality-dependent format
PlatformFormatAllYoutube(i, quality) == YoutubeFormat(quality)

PlatformFormat(i, quality) ==
    IF i = 1 THEN YoutubeFormat(quality) ELSE BEST_MP4

\* the index of the first platform (in iteration order) contained in url,
\* 0 when there is none
FirstPlatform(url) ==
    LET hit == { i \in 1 .. Len(PLATFORMS) : Contains(PLATFORMS[i], url) }
    IN  IF hit = {} THEN 0 ELSE CHOOSE i \in hit : \A k \in hit : i <= k

_get_format_option(url, quality) ==
    IF FirstPlatform(url) = 0
    THEN BEST_MP4
    ELSE PlatformFormat(FirstPlatform(url), quality)


(***************************************************************************)
(* Recent-URL history: the file and the combo box showing it.              *)
(***************************************************************************)
\* recent_urls[:10]
HISTORY_CAP == 10

NoFile == [exists |-> FALSE, text |-> << >>]

FileOf(text) == [exists |-> TRUE, text |-> text]

\* the list _load_recent_urls builds from the file's text
LoadedUrls(file) == strip_nonblank(readlines(file.text))

\* slot of recent_urls_combo.currentTextChanged
_set_url_from_recent(url, input) == IF url # << >> THEN url ELSE input

\* the widgets the history code touches
Widgets(items, index, input) == [items |-> items, index |-> index, input |-> input]

\* QComboBox.clear(): no current item; currentTextChanged("") reaches the slot
ComboClear(w) ==
    Widgets(<< >>, 0, IF w.index # 0 THEN _set_url_from_recent(<< >>, w.input)
                      ELSE w.input)

\* QComboBox.addItems(urls): filling an empty combo makes its first item
\* current, and currentTextChanged(urls[0]) reaches the slot
ComboAddItems(w, urls) ==
    IF urls = << >> THEN w
    ELSE IF w.items = << >>
         THEN Widgets(urls, 1, _set_url_from_recent(urls[1], w.input))
         ELSE Widgets(w.items \o urls, w.index, w.input)

\* returns the list read and the widgets as the call leaves them
_load_recent_urls(file, w) ==
    IF ~file.exists
    THEN [urls |-> << >>, w |-> w]
    ELSE [urls |-> LoadedUrls(file),
          w |-> ComboAddItems(ComboClear(w), LoadedUrls(file))]

\* _add_to_recent_urls without the [:10]
_add_to_recent_urls_uncut(url, file, w) ==
    LET ld == _load_recent_urls(file, w)
        recent_urls == << url >> \o ld.urls
    IN  IF InList(url, ld.urls)
        THEN [file |-> file, w |-> ld.w]
        ELSE [file |-> FileOf(join(recent_urls)),
              w |-> ComboAddItems(ComboClear(ld.w), recent_urls)]

\* returns the file and the widgets as the call leaves them
_add_to_recent_urls(url, file, w) ==
    LET ld == _load_recent_urls(file, w)
        recent_urls == Take(<< url >> \o ld.urls, HISTORY_CAP)
    IN  IF InList(url, ld.urls)
        THEN [file |-> file, w |-> ld.w]
        ELSE [file |-> FileOf(join(recent_urls)),
              w |-> ComboAddItems(ComboClear(ld.w), recent_urls)]

(***************************************************************************)
(* VideoDownloaderThread._progress_hook.  A callback dict d is a function  *)
(* from the keys it holds; None is the value None of a key that is there.  *)
(***************************************************************************)
None == 0 - 1

\* d.get(key, default)
Get(d, key, default) == IF key \in DOMAIN d THEN d[key] ELSE default

HookDownloaded(d) == Get(d, "downloaded_bytes", 0)

\* the two size keys read in the other order
HookTotalBytesFirst(d) == Get(d, "total_bytes", Get(d, "total_bytes_estimate", 0))

HookTotal(d) == Get(d, "total_bytes_estimate", Get(d, "total_bytes", 0))

HookSpeed(d) == Get(d, "speed", 0)

\* `if total > 0`, for a total that is a number
TotalKnown(total) == total > 0

\* the percentage without its clamp
PercentageUnclamped(downloaded, total) == (downloaded * 100) \div total

\* min(100, int((downloaded / total) * 100)), for 0 <= downloaded, 0 < total
\* (the float quotient; it equals the exact one on the byte counts used here)
Percentage(downloaded, total) == Min(100, (downloaded * 100) \div total)

MB == 1024 * 1024

\* f"{speed/1024/1024:.2f} MB/s" as hundredths of a MB/s, rounded to nearest
SpeedStr(speed) == (speed * 100 + MB \div 2) \div MB

Event(sig, num, msg, tick) == [sig |-> sig, num |-> num, msg |-> msg, tick |-> tick]

\* the hook raises TypeError: `None > 0`, or `None / total`
HookRaises(d) ==
    /\ d["status"] = "downloading"
    /\ \/ HookTotal(d) = None
       \/ TotalKnown(HookTotal(d)) /\ HookDownloaded(d) = None

\* the signals one call of the hook emits, in order; n is the call's number
HookEvents(d, n) ==
    IF d["status"] # "downloading" \/ HookRaises(d) THEN << >>
    ELSE (IF TotalKnown(HookTotal(d))
          THEN << Event("progress", Percentage(HookDownloaded(d), HookTotal(d)), "", n) >>
          ELSE << >>)
         \o
         (IF HookSpeed(d) # 0 /\ HookSpeed(d) # None
          THEN << Event("speed", SpeedStr(HookSpeed(d)), "", n) >>
          ELSE << >>)

(***************************************************************************)
(* Bounds of the model.                                                    *)
(***************************************************************************)
\* download threads alive at the same time
MaxJobs == 2

\* callbacks the library makes during one download
MaxTicks == 2

(***************************************************************************)
(* VideoDownloaderThread: construction and run().                          *)
(***************************************************************************)
\* __init__; pc "started" is a thread whose run() has not begun
NewThread(url, quality) ==
    [url |-> url, quality |-> quality, pc |-> "started", format |-> << >>,
     ticks |-> << >>, emitted |-> << >>]

SUCCESS_MSG == "Video downloaded and converted successfully."

\* f"Download error: {str(e)}" for the exceptions of the model
LIBRARY_ERROR == "Download error: DownloadError"

HOOK_ERROR == "Download error: TypeError"

\* run(): the statement after ydl.download returns
OnSuccess == << Event("finished", 0, SUCCESS_MSG, 0) >>

\* a handler that lets the exception go: the thread ends without an outcome
OnExceptionSwallowed(msg) == << >>

\* run(): the except clause
OnException(msg) == << Event("error", 0, msg, 0) >>

\* what crosses to the GUI thread for an emitted event
Signal(e) == [sig |-> e.sig, num |-> e.num, msg |-> e.msg]

RECURSIVE Signals(_)
Signals(es) ==
    IF es = << >> THEN << >> ELSE << Signal(Head(es)) >> \o Signals(Tail(es))

\* thread j emits es (queued connections: delivery is a later GUI step)
Emit(j, es, pc, d) ==
    /\ threads' = [threads EXCEPT ![j].emitted = @ \o es,
                                  ![j].pc = pc,
                                  ![j].ticks = @ \o d]
    /\ queue' = queue \o Signals(es)

\* run() up to the call of ydl.download
run_begin ==
    \E j \in 1 .. Len(threads) :
        /\ threads[j].pc = "started"
        /\ threads' = [threads EXCEPT
                          ![j].pc = "downloading",
                          ![j].format = _get_format_option(threads[j].url,
                                                           threads[j].quality)]
        /\ UNCHANGED << url_input, quality_combo, combo_items, combo_index,
                        history_file, ffmpeg_on_path, button_enabled,
                        progress_bar, speed_label, tab_index, dialogs, queue >>

\* the library calls _progress_hook(d) during ydl.download; an exception of
\* the hook leaves ydl.download and reaches run()'s except clause
progress_hook(D) ==
    \E j \in 1 .. Len(threads) : \E d \in D :
        /\ threads[j].pc = "downloading"
        /\ Len(threads[j].ticks) < MaxTicks
        /\ IF HookRaises(d)
           THEN Emit(j, OnException(HOOK_ERROR), "done", << d >>)
           ELSE Emit(j, HookEvents(d, Len(threads[j].ticks) + 1),
                     "downloading", << d >>)
        /\ UNCHANGED << url_input, quality_combo, combo_items, combo_index,
                        history_file, ffmpeg_on_path, button_enabled,
                        progress_bar, speed_label, tab_index, dialogs >>

\* ydl.download returns
download_returns ==
    \E j \in 1 .. Len(threads) :
        /\ threads[j].pc = "downloading"
        /\ Emit(j, OnSuccess, "done", << >>)
        /\ UNCHANGED << url_input, quality_combo, combo_items, combo_index,
                        history_file, ffmpeg_on_path, button_enabled,
                        progress_bar, speed_label, tab_index, dialogs >>

\* ydl.download raises
download_raises ==
    \E j \in 1 .. Len(threads) :
        /\ threads[j].pc = "downloading"
        /\ Emit(j, OnException(LIBRARY_ERROR), "done", << >>)
        /\ UNCHANGED << url_input, quality_combo, combo_items, combo_index,
                        history_file, ffmpeg_on_path, button_enabled,
                        progress_bar, speed_label, tab_index, dialogs >>

(***************************************************************************)
(* VideoDownloaderApp: the handlers of the GUI thread.                     *)
(***************************************************************************)
\* _show_message: a modal box; `then` is what its caller does once
\* msg_box.exec_() returns
Dialog(title, message, then) == [title |-> title, message |-> message, then |-> then]

\* QProgressBar.setValue with the range 0..100
SetValue(old, v) == IF v \in 0 .. 100 THEN v ELSE old

\* `if not url`
UrlMissing(url) == url = << >>

\* the converter check left out
FfmpegNeverMissing(found) == FALSE

\* `if not ffmpeg_location`
FfmpegMissing(found) == ~found

\* the button left as it was
ButtonLeftEnabled == TRUE

\* self.download_button.setEnabled(False)
ButtonAfterStart == FALSE

\* the user edits the URL field (no message box is open)
TypeUrl(S) ==
    /\ dialogs = << >>
    /\ \E t \in S : url_input' = t
    /\ UNCHANGED << quality_combo, combo_items, combo_index, history_file,
                    ffmpeg_on_path, button_enabled, progress_bar, speed_label,
                    tab_index, dialogs, threads, queue >>

\* the user picks a quality
SelectQuality(Q) ==
    /\ dialogs = << >>
    /\ \E q \in Q : quality_combo' = q
    /\ UNCHANGED << url_input, combo_items, combo_index, history_file,
                    ffmpeg_on_path, button_enabled, progress_bar, speed_label,
                    tab_index, dialogs, threads, queue >>

\* the user picks another entry of the recent-URL combo
PickRecent ==
    /\ dialogs = << >>
    /\ \E i \in 1 .. Len(combo_items) :
          /\ i # combo_index
          /\ combo_index' = i
          /\ url_input' = _set_url_from_recent(combo_items[i], url_input)
    /\ UNCHANGED << quality_combo, combo_items, history_file, ffmpeg_on_path,
                    button_enabled, progress_bar, speed_label, tab_index,
                    dialogs, threads, queue >>

\* the user changes tab
SwitchTab ==
    /\ dialogs = << >>
    /\ tab_index' = 1 - tab_index
    /\ UNCHANGED << url_input, quality_combo, combo_items, combo_index,
                    history_file, ffmpeg_on_path, button_enabled, progress_bar,
                    speed_label, dialogs, threads, queue >>

\* the converter is installed or removed
FfmpegChange ==
    /\ ffmpeg_on_path' = ~ffmpeg_on_path
    /\ UNCHANGED << url_input, quality_combo, combo_items, combo_index,
                    history_file, button_enabled, progress_bar, speed_label,
                    tab_index, dialogs, threads, queue >>

\* "Fetch Info"; info is what extract_video_info returns
_fetch_video_info(info) ==
    /\ dialogs = << >>
    /\ LET url == strip(url_input)
           r == _add_to_recent_urls(url, history_file,
                                    Widgets(combo_items, combo_index, url_input))
       IN  IF UrlMissing(url)
           THEN /\ dialogs' = Append(dialogs,
                       Dialog("Error", "Please enter a valid URL", "return"))
                /\ UNCHANGED << url_input, combo_items, combo_index,
                                history_file, tab_index >>
           ELSE IF info = "error"
           THEN /\ dialogs' = Append(dialogs,
                       Dialog("Error", "extraction error", "return"))
                /\ UNCHANGED << url_input, combo_items, combo_index,
                                history_file, tab_index >>
           ELSE /\ tab_index' = 1
                /\ history_file' = r.file
                /\ combo_items' = r.w.items
                /\ combo_index' = r.w.index
                /\ url_input' = r.w.input
                /\ UNCHANGED dialogs
    /\ UNCHANGED << quality_combo, ffmpeg_on_path, button_enabled,
                    progress_bar, speed_label, threads, queue >>

FetchInfo == \E info \in {"ok", "error"} : _fetch_video_info(info)

\* a thread whose run() has not yet emitted its outcome
IsLive(t) == t.pc # "done"

\* "Download Video" (a disabled button takes no click).  Assigning
\* self.download_thread drops the window's reference to the thread of the
\* previous download; a finished one is gone with it.
_start_download ==
    /\ dialogs = << >>
    /\ button_enabled
    /\ LET url == strip(url_input)
       IN  IF UrlMissing(url)
           THEN /\ dialogs' = Append(dialogs,
                       Dialog("Error", "Please enter a valid video URL", "return"))
                /\ UNCHANGED << threads, button_enabled, progress_bar >>
           ELSE IF FfmpegMissing(ffmpeg_on_path)
           THEN /\ dialogs' = Append(dialogs,
                       Dialog("FFmpeg Not Found",
                              "FFmpeg is required. Please install it.", "return"))
                /\ UNCHANGED << threads, button_enabled, progress_bar >>
           ELSE /\ Len(threads) < MaxJobs
                /\ threads' = Append(SelectSeq(threads, IsLive),
                                     NewThread(url, quality_combo))
                /\ button_enabled' = ButtonAfterStart
                /\ progress_bar' = SetValue(progress_bar, 0)
                /\ UNCHANGED dialogs
    /\ UNCHANGED << url_input, quality_combo, combo_items, combo_index,
                    history_file, ffmpeg_on_path, speed_label, tab_index, queue >>

\* the GUI event loop (the main one, or a message box's) delivers the oldest
\* queued signal to its slot: progress_bar.setValue, _update_speed,
\* _on_download_finished or _on_download_error up to its message box
Deliver ==
    /\ queue # << >>
    /\ LET e == Head(queue)
       IN  /\ progress_bar' = IF e.sig = "progress"
                              THEN SetValue(progress_bar, e.num)
                              ELSE progress_bar
           /\ speed_label' = IF e.sig = "speed" THEN e.num ELSE speed_label
           /\ dialogs' =
                 IF e.sig = "finished"
                 THEN Append(dialogs, Dialog("Download Complete", e.msg, "finished"))
                 ELSE IF e.sig = "error"
                 THEN Append(dialogs, Dialog("Download Error", e.msg, "error"))
                 ELSE dialogs
    /\ queue' = Tail(queue)
    /\ UNCHANGED << url_input, quality_combo, combo_items, combo_index,
                    history_file, ffmpeg_on_path, button_enabled, tab_index,
                    threads >>

\* the user closes the innermost message box; the handler that opened it
\* runs to its end
CloseDialog ==
    /\ dialogs # << >>
    /\ LET top == dialogs[Len(dialogs)]
       IN  /\ button_enabled' = IF top.then \in {"finished", "error"}
                                THEN TRUE ELSE button_enabled
           /\ progress_bar' = IF top.then = "finished"
                              THEN SetValue(progress_bar, 100)
                              ELSE progress_bar
    /\ dialogs' = SubSeq(dialogs, 1, Len(dialogs) - 1)
    /\ UNCHANGED << url_input, quality_combo, combo_items, combo_index,
                    history_file, ffmpeg_on_path, speed_label, tab_index,
                    threads, queue >>

(***************************************************************************)
(* The state after VideoDownloaderApp() is constructed, with a history     *)
(* file that is absent or empty.                                           *)
(***************************************************************************)
Init ==
    /\ url_input = << >>
    /\ quality_combo = QUALITY_OPTIONS[1]
    /\ combo_items = << >>
    /\ combo_index = 0
    /\ history_file \in {NoFile, FileOf(<< >>)}
    /\ ffmpeg_on_path \in BOOLEAN
    /\ button_enabled = TRUE
    /\ progress_bar = 0 - 1
    /\ speed_label = None
    /\ tab_index = 0
    /\ dialogs = << >>
    /\ threads = << >>
    /\ queue = << >>

(***************************************************************************)
(* Spec: the whole application on a small set of inputs.                   *)
(***************************************************************************)
UrlA == << "a" >>

UrlB == << "b" >>

GuiTexts == { << " " >>, UrlA, UrlB, << " ", "b" >> }

GuiQualities == { BestAvailable }

Absent == 0 - 2

\* a callback dict; a field that is Absent is a key the dict does not hold
Dict(status, downloaded, total, estimate, speed) ==
    LET keys == {"status"}
                  \cup (IF downloaded # Absent THEN {"downloaded_bytes"} ELSE {})
                  \cup (IF total # Absent THEN {"total_bytes"} ELSE {})
                  \cup (IF estimate # Absent THEN {"total_bytes_estimate"} ELSE {})
                  \cup (IF speed # Absent THEN {"speed"} ELSE {})
    IN  [k \in keys |->
            CASE k = "status" -> status
              [] k = "downloaded_bytes" -> downloaded
              [] k = "total_bytes" -> total
              [] k = "total_bytes_estimate" -> estimate
              [] k = "speed" -> speed]

FastSpeed == MB + MB \div 2

GuiTicks ==
    { Dict("downloading", 1, 2, Absent, FastSpeed),
      Dict("downloading", 3, Absent, 2, 0) }

TypeUrlGui == TypeUrl(GuiTexts)

SelectQualityGui == SelectQuality(GuiQualities)

ProgressHookGui == progress_hook(GuiTicks)

Next ==
    \/ FetchInfo
    \/ TypeUrlGui
    \/ SelectQualityGui
    \/ PickRecent
    \/ FfmpegChange
    \/ _start_download
    \/ run_begin
    \/ ProgressHookGui
    \/ download_returns
    \/ download_raises
    \/ Deliver
    \/ CloseDialog

Spec == Init /\ [][Next]_vars

(***************************************************************************)
(* SpecHook: one download under every kind of callback dict.               *)
(***************************************************************************)
HookTicks ==
    { Dict("downloading", db, tb, tbe, sp) :
        db \in {Absent, 1, 3}, tb \in {Absent, None, 0, 2},
        tbe \in {Absent, 0, 4}, sp \in {0, FastSpeed} }
    \cup { Dict("finished", 3, 2, Absent, Absent) }

TypeUrlHook == TypeUrl({UrlA})

ProgressHookAll == progress_hook(HookTicks)

NextHook ==
    \/ TypeUrlHook
    \/ _start_download
    \/ run_begin
    \/ ProgressHookAll
    \/ download_returns
    \/ download_raises

SpecHook == Init /\ [][NextHook]_vars

(***************************************************************************)
(* SpecFormat: format selection over URLs naming zero, one or two          *)
(* platforms, for every quality.                                           *)
(***************************************************************************)
UrlParts ==
    { << >>, << "x" >>, << "youtube" >> }
        \cup { PLATFORMS[i] : i \in 1 .. Len(PLATFORMS) }

FormatUrls == { a \o b : a \in UrlParts, b \in UrlParts }

TypeUrlFormat == TypeUrl(FormatUrls)

SelectQualityAll ==
    SelectQuality({ QUALITY_OPTIONS[i] : i \in 1 .. Len(QUALITY_OPTIONS) })

NextFormat ==
    \/ TypeUrlFormat
    \/ SelectQualityAll
    \/ _start_download
    \/ run_begin

SpecFormat == Init /\ [][NextFormat]_vars

(***************************************************************************)
(* SpecHistory: the history under one URL more than it can hold.  URLs     *)
(* are interchangeable, so a URL never used before is always the next of   *)
(* UrlNames; it is typed bare or with a blank before it.                   *)
(***************************************************************************)
UrlNames ==
    << "u1", "u2", "u3", "u4", "u5", "u6", "u7", "u8", "u9", "u10", "u11", "u12" >>

HistoryUrl(k) == << UrlNames[k] >>

HistoryTexts ==
    LET known == Min(Len(LoadedUrls(history_file)) + 1, HISTORY_CAP + 1)
    IN  { HistoryUrl(k) : k \in 1 .. known }
            \cup { << " " >> \o HistoryUrl(k) : k \in 1 .. known }

TypeUrlHistory == TypeUrl(HistoryTexts)

NextHistory ==
    \/ FetchInfo
    \/ TypeUrlHistory
    \/ PickRecent
    \/ SwitchTab
    \/ CloseDialog

SpecHistory == Init /\ [][NextHistory]_vars

(***************************************************************************)
(* Properties.                                                             *)
(***************************************************************************)
IsTerminal(e) == e.sig \in {"finished", "error"}

IsProgress(e) == e.sig = "progress"

\* the progress events of thread t, in emission order
ProgressOf(t) == SelectSeq(t.emitted, IsProgress)

\* a successful "Fetch Info" of a non-blank URL
FetchedOk == _fetch_video_info("ok") /\ strip(url_input) # << >>

\* C1: a download thread emits no outcome event before run() ends and exactly
\* one (finished or error) when it ends, and that event is the last event the
\* thread emits: every progress or speed event precedes it.
C1_ExactlyOneOutcome ==
    \A j \in 1 .. Len(threads) :
        LET em == threads[j].emitted
            terminals == { i \in 1 .. Len(em) : IsTerminal(em[i]) }
        IN  /\ threads[j].pc = "done" => terminals = { Len(em) } /\ em # << >>
            /\ threads[j].pc # "done" => terminals = {}

\* C1 witness: a finished download whose outcome follows a progress and a
\* speed event
C1_Witness ==
    \E j \in 1 .. Len(threads) :
        LET em == threads[j].emitted
        IN  /\ threads[j].pc = "done"
            /\ Len(em) >= 3
            /\ em[1].sig = "progress"
            /\ em[2].sig = "speed"
            /\ em[Len(em)].sig = "finished"

\* a callback with downloaded_bytes >= 0 and total_bytes > 0 and no estimate
PlainTick(d) ==
    /\ d["status"] = "downloading"
    /\ "downloaded_bytes" \in DOMAIN d
    /\ "total_bytes" \in DOMAIN d
    /\ "total_bytes_estimate" \notin DOMAIN d
    /\ d["downloaded_bytes"] >= 0
    /\ d["total_bytes"] > 0

InRange(p) == \A n \in 1 .. Len(p) : p[n].num \in 0 .. 100

\* C2 as claimed: over callbacks with downloaded_bytes >= 0 and
\* total_bytes > 0, every emitted percentage is in 0..100 and the emitted
\* percentages never decrease.
C2_Original ==
    \A j \in 1 .. Len(threads) :
        LET p == ProgressOf(threads[j])
            tk == threads[j].ticks
        IN  (\A n \in 1 .. Len(tk) : PlainTick(tk[n])) =>
                /\ InRange(p)
                /\ \A n \in 1 .. (Len(p) - 1) : p[n].num <= p[n + 1].num

\* the total the callback's size keys give: the estimate when that key is
\* there, else total_bytes, else 0
EffectiveTotal(d) ==
    IF "total_bytes_estimate" \in DOMAIN d THEN d["total_bytes_estimate"]
    ELSE IF "total_bytes" \in DOMAIN d THEN d["total_bytes"]
    ELSE 0

EffectiveDownloaded(d) ==
    IF "downloaded_bytes" \in DOMAIN d THEN d["downloaded_bytes"] ELSE 0

\* C2 as amended: every emitted percentage is in 0..100, and of two
\* consecutive emissions the later is not smaller whenever the ratio
\* downloaded / total of its callback is not smaller.
C2_Amended ==
    \A j \in 1 .. Len(threads) :
        LET p == ProgressOf(threads[j])
            tk == threads[j].ticks
        IN  /\ InRange(p)
            /\ \A n \in 1 .. (Len(p) - 1) :
                  LET a == tk[p[n].tick]
                      b == tk[p[n + 1].tick]
                  IN  EffectiveDownloaded(a) * EffectiveTotal(b)
                          <= EffectiveDownloaded(b) * EffectiveTotal(a)
                      => p[n].num <= p[n + 1].num

\* C2 witness: two emissions, the second larger and clamped to 100
C2_Witness ==
    \E j \in 1 .. Len(threads) :
        LET p == ProgressOf(threads[j])
        IN  /\ Len(p) = 2
            /\ p[1].num = 50
            /\ p[2].num = 100
            /\ EffectiveDownloaded(threads[j].ticks[p[2].tick]) = 3
            /\ EffectiveTotal(threads[j].ticks[p[2].tick]) = 2

\* thread t emitted an event of signal sig during its n-th callback
EmittedAt(t, sig, n) ==
    \E i \in 1 .. Len(t.emitted) : t.emitted[i].sig = sig /\ t.emitted[i].tick = n

OutcomePending ==
    \/ \E i \in 1 .. Len(queue) : IsTerminal(queue[i])
    \/ \E i \in 1 .. Len(dialogs) : dialogs[i].then \in {"finished", "error"}

LiveThreads == { j \in 1 .. Len(threads) : IsLive(threads[j]) }

\* C4: at most one download runs at a time, and the download button is
\* enabled only when no download runs and no outcome waits to be handled.
C4_OneJobAtATime ==
    /\ Cardinality(LiveThreads) <= 1
    /\ button_enabled => LiveThreads = {} /\ ~OutcomePending

\* C4 witness: a later download is running (the speed shown is an earlier
\* download's) with the button disabled
C4_Witness ==
    /\ Len(threads) = 1
    /\ threads[1].pc = "downloading"
    /\ threads[1].ticks = << >>
    /\ speed_label # None
    /\ ~button_enabled

\* C5: a Download click with a blank URL or without the converter on PATH
\* starts no thread, leaves the button enabled and leaves the progress bar.
C5_RejectedSynchronously ==
    [][ (_start_download /\ (strip(url_input) = << >> \/ ~ffmpeg_on_path))
            => /\ threads' = threads
               /\ button_enabled'
               /\ progress_bar' = progress_bar ]_vars

\* C5 witness: the converter is reported missing after an earlier download
\* finished: its thread is still the last one, the bar still shows 100
C5_Witness ==
    /\ dialogs # << >>
    /\ dialogs[Len(dialogs)].title = "FFmpeg Not Found"
    /\ button_enabled
    /\ progress_bar = 100
    /\ Len(threads) = 1
    /\ threads[1].pc = "done"

\* the history list the file holds
History == LoadedUrls(history_file)

NoDuplicates(l) == \A i, k \in 1 .. Len(l) : l[i] = l[k] => i = k

\* C6: the persisted history has no duplicate entry and at most 10 entries.
C6_HistoryBounded == NoDuplicates(History) /\ Len(History) <= 10

\* C6 witness: a full history from which the first URL recorded is gone
C6_Witness ==
    /\ Len(History) = 10
    /\ ~InList(HistoryUrl(1), History)
    /\ History[1] = HistoryUrl(11)

\* C7 as claimed: the history is most-recently-used first, so the URL a
\* successful fetch has just recorded heads it.
C7_RecencyOrder ==
    [][ FetchedOk => Head(LoadedUrls(history_file')) = strip(url_input) ]_vars

\* C8: recording the URL that already heads the history leaves the file
\* and the list as they are, and recording a URL into an empty history gives
\* the one-element list of that URL.
C8_RecordIdempotent ==
    [][ FetchedOk =>
            /\ (History # << >> /\ History[1] = strip(url_input))
                  => /\ history_file' = history_file
                     /\ LoadedUrls(history_file') = History
            /\ History = << >>
                  => LoadedUrls(history_file') = << strip(url_input) >> ]_vars

\* C8 witness: a one-element history whose URL is in the URL field, ready
\* to be fetched again
C8_Witness ==
    /\ History = << HistoryUrl(1) >>
    /\ url_input = HistoryUrl(1)
    /\ combo_items = << HistoryUrl(1) >>
    /\ tab_index = 1

\* the URL names one of the three fixed-format platforms
NamesFixedPlatform(url) ==
    \/ Contains(<< "instagram", ".com" >>, url)
    \/ Contains(<< "vimeo", ".com" >>, url)
    \/ Contains(<< "facebook", ".com" >>, url)

\* C9 as claimed: a URL containing instagram.com, vimeo.com or facebook.com
\* gets best[ext=mp4], whatever the quality.
C9_Original ==
    \A j \in 1 .. Len(threads) :
        (threads[j].pc # "started" /\ NamesFixedPlatform(threads[j].url))
            => threads[j].format = << "best[ext=mp4]" >>

\* C9 as amended: such a URL gets best[ext=mp4] whatever the quality,
\* provided it does not also contain youtube.com.
C9_Amended ==
    \A j \in 1 .. Len(threads) :
        (/\ threads[j].pc # "started"
         /\ NamesFixedPlatform(threads[j].url)
         /\ ~Contains(<< "youtube", ".com" >>, threads[j].url))
            => threads[j].format = << "best[ext=mp4]" >>

\* C9 witness: a 720p download of an instagram.com URL with its format set
C9_Witness ==
    \E j \in 1 .. Len(threads) :
        /\ threads[j].pc = "downloading"
        /\ threads[j].url = << "x", "instagram", ".com" >>
        /\ threads[j].quality = << "7", "2", "0", "p" >>
        /\ threads[j].format = << "best[ext=mp4]" >>

\* C10 as claimed: after a successful fetch of URL u the URL field holds u.
C10_InputKeepsFetchedUrl ==
    [][ FetchedOk => url_input' = strip(url_input) ]_vars

=============================================================================
